---- MODULE Spec2Model ----
(***************************************************************************)
(* Verification model of QREM's detector tomography core:                  *)
(*   - DetectorTomographyFitter.get_maximum_likelihood_povm_estimator      *)
(*     (src/DetectorTomography.py), the iterative MLE loop;                *)
(*   - join_povms (src/DetectorTomography.py) with permute_matrix,         *)
(*     qubit_swap, reorder_classical_register, sort_things, sort_bitstring *)
(*     (src/povmtools.py);                                                 *)
(*   - find_closest_prob_vector (src/povmtools.py);                        *)
(*   - __get_r_operator, __get_lagrange_matrix, __calculate_symmetric_m    *)
(*     (src/DetectorTomography.py), the body of one pass of the MLE loop.  *)
(*                                                                         *)
(* Each of the four components is one call in progress, held in one record *)
(* variable (est, jn, sw, pr); a specification runs one component and      *)
(* leaves the other records at Idle.  The estimator est is followed at     *)
(* three grains: the loop control (SpecMLE), one R-operator (SpecR) and    *)
(* the statements of the loop body (SpecUpdate).                           *)
(*                                                                         *)
(* Numbers.  Thresholds and checkpoint differences of the MLE loop are     *)
(* integers in units of 1e-6 (1.0 is 1000000).  Matrices are integer       *)
(* matrices, functions [0..D-1 -> [0..D-1 -> Int]]; POVM effects are       *)
(* multiplied by a common integer factor so that their entries are         *)
(* integers.  Entries of probability vectors are integers in units of      *)
(* 1/(Resolution * Fact(MaxLen)), which makes every division a/(i+1) of    *)
(* find_closest_prob_vector exact.                                         *)
(***************************************************************************)
EXTENDS Integers, Sequences, FiniteSets, TLC

VARIABLES est, jn, sw, pr

vars == <<est, jn, sw, pr>>

\* A component that is not running in the specification at hand.
Idle == [pc |-> "idle"]

Abs(x) == IF x < 0 THEN -x ELSE x

RECURSIVE Pow2(_)
Pow2(n) == IF n = 0 THEN 1 ELSE 2 * Pow2(n - 1)

RECURSIVE Fact(_)
Fact(n) == IF n <= 1 THEN 1 ELSE n * Fact(n - 1)

(***************************************************************************)
(*                    PART 1.  The MLE iteration                           *)
(***************************************************************************)

\* Bound of the model: the iteration counter is folded back by one checkpoint
\* period once it reaches MaxIter.  The loop reads i only through i % 50,
\* i > 1e5 and i > 5e5, all of which the fold preserves (MaxIter lies more
\* than one period past the last relaxation point).
MaxIter == 500100

\* src/DetectorTomography.py:146,156  "if i % 50 == 0"
CheckpointPeriod == 50
\* src/DetectorTomography.py:163  "elif i > 1e5"
FirstRelaxationAfter == 100000
\* src/DetectorTomography.py:160  "elif i > 5e5"
SecondRelaxationAfter == 500000
\* src/DetectorTomography.py:164  "threshold = 1e-4", in units of 1e-6
FirstRelaxedThreshold == 100
\* src/DetectorTomography.py:161  "threshold = 1e-3", in units of 1e-6
SecondRelaxedThreshold == 1000
\* src/DetectorTomography.py:142  "current_difference = 1", in units of 1e-6
InitialDifference == 1000000
\* src/DetectorTomography.py:115  default algorithm_convergence_threshold=1e-6
DefaultThreshold == 1

\* Configured thresholds tried: the default 1e-6, 5e-3 (above both relaxed
\* values), 1.0 (the initial difference itself) and 2.0 (above it).
Thresholds == {DefaultThreshold, 5000, InitialDifference, 2000000}

\* Values a checkpoint's norm sum may take: one below the default threshold,
\* one in [1e-6, 1e-4), one in [1e-4, 1e-3), one at or above 1e-3.
Diffs == {0, 50, 500, 5000}

\* Calibration inputs tried.  ket_dims are the dimensions of the probe kets,
\* rows and cols the shape of frequencies_array.
CalibrationInputs ==
    { [qubits_number |-> 1, ket_dims |-> <<2, 2>>, rows |-> 2, cols |-> 2],   \* well formed
      [qubits_number |-> 1, ket_dims |-> <<2, 2>>, rows |-> 3, cols |-> 2],   \* a row too many
      [qubits_number |-> 1, ket_dims |-> <<2, 3>>, rows |-> 2, cols |-> 2],   \* kets of unequal dimension
      [qubits_number |-> 2, ket_dims |-> <<2, 2>>, rows |-> 5, cols |-> 4] }  \* two qubits, a row too many

\* gtc_tensor_counting_function over calculate_tensor_to_increasing_list:
\* the dimensions of the Kronecker products of qubits_number copies of the
\* kets' density matrices, last factor varying fastest.
RECURSIVE get_probe_states(_, _)
get_probe_states(qubits_number, ket_dims) ==
    IF qubits_number <= 1 THEN ket_dims
    ELSE LET rest == get_probe_states(qubits_number - 1, ket_dims)
             k    == Len(ket_dims)
             r    == Len(rest)
         IN  [p \in 1..(k * r) |->
                 ket_dims[((p - 1) \div r) + 1] * rest[((p - 1) % r) + 1]]

\* QDTCalibrationSetup.__init__: stores its arguments and the derived probe
\* states (here: their dimensions).  It checks nothing.
QDTCalibrationSetup(input) ==
    [qubits_number |-> input.qubits_number,
     probe_kets    |-> input.ket_dims,
     probe_states  |-> get_probe_states(input.qubits_number, input.ket_dims),
     rows          |-> input.rows,
     cols          |-> input.cols]

\* The documented shape of a calibration (docstrings, lines 94-96 and 177-179):
\* one frequencies row per probe state, probe states of one common dimension.
WellFormed(input) ==
    LET states == get_probe_states(input.qubits_number, input.ket_dims)
    IN  /\ input.rows = Len(states)
        /\ \A p \in 1..Len(states) : states[p] = states[1]

\* __get_r_operator, as far as it can fault: for probe_state_index in
\* range(frequencies_array.shape[0]) it reads probe_states[probe_state_index]
\* (IndexError past the end of the list) and multiplies it with the effect,
\* whose dimension is that of probe_states[0] (ValueError on a mismatch).
\* The first index that faults decides; "none" when no index does.
RECURSIVE RFaultFrom(_, _)
RFaultFrom(setup, s) ==
    IF s > setup.rows THEN "none"
    ELSE IF s > Len(setup.probe_states) THEN "IndexError"
    ELSE IF setup.probe_states[s] # setup.probe_states[1] THEN "ValueError"
    ELSE RFaultFrom(setup, s + 1)

get_r_operator_fault(setup) == RFaultFrom(setup, 1)

\* The iteration counter after one more pass, folded at MaxIter.
Folded(n) == IF n > MaxIter THEN n - CheckpointPeriod ELSE n

\* "if i % 50 == 0" (lines 146 and 156)
IsCheckpoint(i) == i % CheckpointPeriod = 0

\* A variant that takes the copy after the update of the iteration.
SavedPovm_AfterUpdate(i, povm, last_step_povm) ==
    IF i % 50 = 0 THEN povm + 1 ELSE last_step_povm

\* Lines 146-147: at a checkpoint iteration the POVM held at the start of
\* that iteration is copied into last_step_povm.  POVMs are named by the
\* number of updates that produced them (0 is the uniform POVM).
SavedPovm(i, povm, last_step_povm) ==
    IF IsCheckpoint(i) THEN povm ELSE last_step_povm

\* Lines 156-164: the if / elif / elif chain that ends an iteration.  Only
\* one branch runs: at a checkpoint the difference is recomputed
\* (DifferencesAt), off a checkpoint the threshold may be overwritten.
NextThreshold(i, threshold) ==
    IF IsCheckpoint(i) THEN threshold
    ELSE IF i > SecondRelaxationAfter THEN SecondRelaxedThreshold
    ELSE IF i > FirstRelaxationAfter THEN FirstRelaxedThreshold
    ELSE threshold

\* A variant of the loop test that also stops on equality.
LoopCondition_Strict(current_difference, threshold) ==
    Abs(current_difference) > threshold

\* "while abs(current_difference) >= threshold" (line 143)
LoopCondition(current_difference, threshold) ==
    Abs(current_difference) >= threshold

InitMLE ==
    /\ \E input \in CalibrationInputs, t \in Thresholds :
          est = [pc |-> "new", input |-> input,
                 algorithmConvergenceThreshold |-> t]
    /\ jn = Idle /\ sw = Idle /\ pr = Idle

\* QDTCalibrationSetup(...) and DetectorTomographyFitter(threshold).
Construct ==
    /\ est.pc = "new"
    /\ est' = [pc |-> "constructed",
               input |-> est.input,
               setup |-> QDTCalibrationSetup(est.input),
               algorithmConvergenceThreshold |-> est.algorithmConvergenceThreshold]
    /\ UNCHANGED <<jn, sw, pr>>

\* get_maximum_likelihood_povm_estimator, lines 130-142: up to the loop.
StartEstimator ==
    /\ est.pc = "constructed"
    /\ est' = [pc |-> "loop",
               input |-> est.input,
               setup |-> est.setup,
               algorithmConvergenceThreshold |-> est.algorithmConvergenceThreshold,
               threshold |-> est.algorithmConvergenceThreshold,
               i |-> 0,
               current_difference |-> InitialDifference,
               povm |-> 0,
               last_step_povm |-> -1,
               fault |-> "none"]
    /\ UNCHANGED <<jn, sw, pr>>

\* A variant that runs the convergence test in every iteration.
DifferencesAt_EveryIteration(i, current_difference) == {0, 50, 500, 5000}

\* The values line 157 may yield in iteration i: any norm sum at a checkpoint;
\* off a checkpoint the line does not run and the difference is kept.
DifferencesAt(i, current_difference) ==
    IF IsCheckpoint(i) THEN Diffs ELSE {current_difference}

\* One pass of the while loop, lines 143-164, when no R-operator faults.
Iterate ==
    /\ est.pc = "loop"
    /\ LoopCondition(est.current_difference, est.threshold)
    /\ get_r_operator_fault(est.setup) = "none"
    /\ LET i == est.i + 1 IN
       \E d \in DifferencesAt(i, est.current_difference) :
         est' = [est EXCEPT
                   !.i = Folded(i),
                   !.last_step_povm =
                       Folded(i) - i + SavedPovm(i, est.povm, est.last_step_povm),
                   !.povm = Folded(i) - i + est.povm + 1,
                   !.current_difference = d,
                   !.threshold = NextThreshold(i, est.threshold)]
    /\ UNCHANGED <<jn, sw, pr>>

\* One pass of the while loop in which __get_r_operator raises (line 149).
IterateFault ==
    /\ est.pc = "loop"
    /\ LoopCondition(est.current_difference, est.threshold)
    /\ get_r_operator_fault(est.setup) # "none"
    /\ est' = [est EXCEPT !.pc = "fault", !.i = est.i + 1,
                          !.fault = get_r_operator_fault(est.setup)]
    /\ UNCHANGED <<jn, sw, pr>>

\* The loop condition fails: "return povm" (line 166).
Return ==
    /\ est.pc = "loop"
    /\ ~LoopCondition(est.current_difference, est.threshold)
    /\ est' = [est EXCEPT !.pc = "done"]
    /\ UNCHANGED <<jn, sw, pr>>

NextMLE == Construct \/ StartEstimator \/ Iterate \/ IterateFault \/ Return

SpecMLE == InitMLE /\ [][NextMLE]_vars

\* The loop is a sequential program: whenever a step is possible it is taken.
FairSpecMLE == SpecMLE /\ WF_vars(NextMLE)

(***************************************************************************)
(*                 Claims about the MLE iteration                          *)
(***************************************************************************)

InLoop == est.pc \in {"loop", "done"}

\* C1 (as stated): for every calibration setup and every threshold > 0 the
\* call eventually ends, whatever checkpoint differences the recursion
\* produces, also when they never converge to zero.
C1_AlwaysReturns == <>(est.pc \in {"done", "fault"})

\* C8 (as stated): a structurally invalid calibration input is rejected when
\* QDTCalibrationSetup is constructed: it is never accepted by the
\* constructor, never iterated on and never faults inside the loop.
C8_InvalidInputRejectedAtConstruction ==
    ~WellFormed(est.input) => est.pc = "new"

\* C9 (as stated): whenever the call returns, the number of completed
\* iterations is a multiple of 50.
C9_ReturnsOnlyAtCheckpoints ==
    est.pc = "done" => est.i % CheckpointPeriod = 0

\* C9 (amended): whenever the call returns, the number of completed
\* iterations is a multiple of 50, or it is 100,001 or 500,001, the first
\* iteration past a relaxation point, where the threshold has just been
\* overwritten and the difference of the checkpoint before is tested again.
C9_ReturnsAtCheckpointOrRelaxation ==
    est.pc = "done" =>
        \/ est.i % CheckpointPeriod = 0
        \/ est.i = FirstRelaxationAfter + 1
        \/ est.i = SecondRelaxationAfter + 1

\* A call that returned after 100,001 iterations.
C9_Witness == est.pc = "done" /\ est.i = FirstRelaxationAfter + 1

\* C10 (as stated): at a checkpoint iteration the POVM the current one is
\* compared with is the POVM held at the previous checkpoint, 50 updates ago.
C10_ComparedWithPreviousCheckpoint ==
    (InLoop /\ est.i > 0 /\ IsCheckpoint(est.i))
        => est.last_step_povm = est.povm - CheckpointPeriod

\* C10 (amended): at a checkpoint iteration the POVM the current one is
\* compared with is the POVM held at the start of that same iteration, one
\* update ago: the value measures the change of a single iteration.
C10_ComparedWithStartOfIteration ==
    (InLoop /\ est.i > 0 /\ IsCheckpoint(est.i))
        => est.last_step_povm = est.povm - 1

\* The first checkpoint: 50 updates done, the copy is the POVM after 49.
C10_Witness ==
    /\ est.pc = "loop" /\ est.i = CheckpointPeriod
    /\ est.povm = CheckpointPeriod /\ est.last_step_povm = CheckpointPeriod - 1

\* C11 (as stated): within one call the effective threshold is only ever
\* relaxed: at every iteration the threshold of the loop test is at least the
\* configured convergence threshold, and it never decreases from one
\* iteration to the next.
C11_ThresholdOnlyRelaxed ==
    /\ [](InLoop => est.threshold >= est.algorithmConvergenceThreshold)
    /\ [][(est.pc = "loop" /\ est'.pc = "loop")
              => est'.threshold >= est.threshold]_vars

\* C17: a call that returns has completed 0 iterations when the configured
\* threshold is greater than 1, and then it returns the initial uniform POVM
\* unchanged; it has completed at least 50 when the threshold is at most 1.
C17_IterationsBeforeReturn ==
    est.pc = "done" =>
        IF est.algorithmConvergenceThreshold > InitialDifference
        THEN est.i = 0 /\ est.povm = 0
        ELSE est.i >= CheckpointPeriod

\* A call with threshold 2.0 returned the uniform POVM at once, or a call
\* with threshold exactly 1.0 returned at the first checkpoint.
C17_Witness ==
    /\ est.pc = "done"
    /\ \/ est.algorithmConvergenceThreshold > InitialDifference /\ est.i = 0
       \/ /\ est.algorithmConvergenceThreshold = InitialDifference
          /\ est.i = CheckpointPeriod

(***************************************************************************)
(*            PART 2.  Matrices, qubit_swap, permute_matrix                *)
(***************************************************************************)

\* Bound of the model: qubit_swap and permute_matrix are run for 1..MaxSwapQubits
\* qubits.
MaxSwapQubits == 3

\* Bound of the model: the number of test matrices per dimension.
NumTestMatrices == 3

Ix(D) == 0..(D - 1)

RECURSIVE DotFrom(_, _, _, _, _)
DotFrom(A, B, x, y, k) ==
    IF k < 0 THEN 0 ELSE A[x][k] * B[k][y] + DotFrom(A, B, x, y, k - 1)

\* numpy's A @ B for D x D matrices.
MatMul(A, B, D) == [x \in Ix(D) |-> [y \in Ix(D) |-> DotFrom(A, B, x, y, D - 1)]]

\* np.eye(D)
Eye(D) == [x \in Ix(D) |-> [y \in Ix(D) |-> IF x = y THEN 1 ELSE 0]]

\* np.kron(A, B) for a dA x dA matrix A and a dB x dB matrix B.
Kron(A, dA, B, dB) ==
    [x \in Ix(dA * dB) |-> [y \in Ix(dA * dB) |->
        A[x \div dB][y \div dB] * B[x % dB][y % dB]]]

\* bin(x)[2:].zfill(n): the n binary digits of x, most significant first
\* (digit p of the Python string is element p + 1 of the sequence).
Bin(x, n) == [p \in 1..n |-> (x \div Pow2(n - p)) % 2]

\* int(string, 2)
RECURSIVE IntOfFrom(_, _)
IntOfFrom(bits, p) ==
    IF p = 0 THEN 0 ELSE bits[p] * Pow2(Len(bits) - p) + IntOfFrom(bits, p - 1)

IntOf(bits) == IntOfFrom(bits, Len(bits))

\* A variant of the exchange that assigns one position after the other,
\* without a temporary: string[i] = string[j]; string[j] = string[i].
ExchangeBits_Sequential(string, i, j) ==
    [p \in 1..Len(string) |-> IF p = i + 1 THEN string[j + 1] ELSE string[p]]

\* qubit_swap, line 380: "string[i], string[j] = string[j], string[i]" with
\* the 0-based positions i and j.
ExchangeBits(string, i, j) ==
    [p \in 1..Len(string) |->
        IF p = i + 1 THEN string[j + 1]
        ELSE IF p = j + 1 THEN string[i + 1]
        ELSE string[p]]

\* A variant of the loop that sets the off-diagonal ones and forgets to clear
\* the diagonal.
RECURSIVE TransformationFrom_KeepDiagonal(_, _, _, _, _)
TransformationFrom_KeepDiagonal(transformation, x, n, i, j) ==
    IF x >= Pow2(n) THEN transformation
    ELSE LET bit == IntOf(ExchangeBits(Bin(x, n), i, j))
             next == IF bit # x
                     THEN LET t3 == [transformation EXCEPT ![bit][x] = 1]
                          IN  [t3 EXCEPT ![x][bit] = 1]
                     ELSE transformation
         IN  TransformationFrom_KeepDiagonal(next, x + 1, n, i, j)

\* qubit_swap, lines 385-393: the loop over x that rewrites np.eye(D).
RECURSIVE TransformationFrom(_, _, _, _, _)
TransformationFrom(transformation, x, n, i, j) ==
    IF x >= Pow2(n) THEN transformation
    ELSE LET bit == IntOf(ExchangeBits(Bin(x, n), i, j))
             next == IF bit # x
                     THEN LET t1 == [transformation EXCEPT ![x][x] = 0]
                              t2 == [t1 EXCEPT ![bit][bit] = 0]
                              t3 == [t2 EXCEPT ![bit][x] = 1]
                          IN  [t3 EXCEPT ![x][bit] = 1]
                     ELSE transformation
         IN  TransformationFrom(next, x + 1, n, i, j)

\* qubit_swap(n, transposition): labels in transposition start from 1.
qubit_swap(n, transposition) ==
    TransformationFrom(Eye(Pow2(n)), 0, n, transposition[1] - 1, transposition[2] - 1)

\* permute_matrix(matrix, n, transposition): swap @ matrix @ swap.
permute_matrix(matrix, n, transposition) ==
    LET swap == qubit_swap(n, transposition)
        D    == Pow2(n)
    IN  MatMul(MatMul(swap, matrix, D), swap, D)

\* Test matrices of dimension D: no symmetry, and for k = 1 all entries
\* different.
TestMatrix(D, k) ==
    [x \in Ix(D) |-> [y \in Ix(D) |-> k * (x * D + y) + (k - 1) * (x - 2 * y) * (y + 1)]]

InitSwap ==
    /\ \E n \in 1..MaxSwapQubits, a \in 1..MaxSwapQubits, b \in 1..MaxSwapQubits,
          k \in 1..NumTestMatrices :
          /\ a <= n /\ b <= n
          /\ sw = [pc |-> "call", n |-> n, transposition |-> <<a, b>>,
                   original |-> TestMatrix(Pow2(n), k),
                   matrix |-> TestMatrix(Pow2(n), k),
                   first |-> TestMatrix(Pow2(n), k),
                   applied |-> 0]
    /\ est = Idle /\ jn = Idle /\ pr = Idle

\* One call matrix = permute_matrix(matrix, n, transposition); the caller
\* makes two of them.
PermuteMatrix ==
    /\ sw.pc = "call"
    /\ LET m == permute_matrix(sw.matrix, sw.n, sw.transposition) IN
       sw' = [sw EXCEPT !.matrix = m,
                        !.first = IF sw.applied = 0 THEN m ELSE sw.first,
                        !.applied = sw.applied + 1,
                        !.pc = IF sw.applied = 1 THEN "done" ELSE "call"]
    /\ UNCHANGED <<est, jn, pr>>

NextSwap == PermuteMatrix

SpecSwap == InitSwap /\ [][NextSwap]_vars

\* C4: for 1 <= i, j <= n the swap matrix P = qubit_swap(n, (i, j)) satisfies
\* P @ P = identity, and permuting a matrix twice with the same transposition
\* gives the matrix back, entry by entry.
C4_SwapTwiceIsIdentity ==
    LET P == qubit_swap(sw.n, sw.transposition)
        D == Pow2(sw.n)
    IN  /\ MatMul(P, P, D) = Eye(D)
        /\ sw.applied = 2 => sw.matrix = sw.original

\* Three qubits, labels 1 and 3 exchanged: the first call changed the matrix,
\* the second restored it.
C4_Witness ==
    /\ sw.pc = "done" /\ sw.n = 3 /\ sw.transposition = <<1, 3>>
    /\ sw.applied = 2
    /\ sw.first # sw.original
    /\ sw.matrix = sw.original

\* Bit p (0-based, counted from the most significant of n bits) of label x.
BitOf(x, n, p) == (x \div Pow2(n - 1 - p)) % 2

\* The label x with its bits at the 0-based positions i and j exchanged.
WithBitsExchanged(x, n, i, j) ==
    x + (BitOf(x, n, j) - BitOf(x, n, i)) * Pow2(n - 1 - i)
      + (BitOf(x, n, i) - BitOf(x, n, j)) * Pow2(n - 1 - j)

\* C16: for 1 <= i, j <= n, qubit_swap(n, (i, j)) is a 2^n x 2^n matrix of
\* zeros and ones with exactly one 1 in every row and every column; its entry
\* (x, y) is 1 exactly when the label of y is the label of x with bits i - 1
\* and j - 1 exchanged; it is the identity when i = j, and (i, j) and (j, i)
\* give the same matrix.
C16_SwapIsTheBitExchangePermutation ==
    LET n == sw.n
        D == Pow2(n)
        i == sw.transposition[1]
        j == sw.transposition[2]
        P == qubit_swap(n, <<i, j>>)
    IN  /\ DOMAIN P = Ix(D)
        /\ \A x \in Ix(D) :
              /\ DOMAIN P[x] = Ix(D)
              /\ \A y \in Ix(D) :
                    P[x][y] = IF y = WithBitsExchanged(x, n, i - 1, j - 1) THEN 1 ELSE 0
              /\ Cardinality({ y \in Ix(D) : P[x][y] = 1 }) = 1
              /\ Cardinality({ y \in Ix(D) : P[y][x] = 1 }) = 1
        /\ i = j => P = Eye(D)
        /\ P = qubit_swap(n, <<j, i>>)

\* Three qubits, labels 1 and 3: the swap matrix has been applied, it maps
\* label 001 to label 100 and leaves label 101 in place.
C16_Witness ==
    /\ sw.applied >= 1 /\ sw.n = 3 /\ sw.transposition = <<1, 3>>
    /\ qubit_swap(3, <<1, 3>>)[1][4] = 1
    /\ qubit_swap(3, <<1, 3>>)[5][5] = 1
    /\ qubit_swap(3, <<1, 3>>)[1][1] = 0

(***************************************************************************)
(*                        PART 3.  join_povms                              *)
(***************************************************************************)

\* Bound of the model: join_povms is run for 1..MaxJoinQubits qubits in all.
MaxJoinQubits == 3

\* Bound of the model: the number of POVMs tried per subsystem size.
NumPovmChoices == 2

\* A matrix from its rows.
FromRows(rows) ==
    [x \in Ix(Len(rows)) |-> [y \in Ix(Len(rows)) |-> rows[x + 1][y + 1]]]

\* Single-qubit POVMs with integer entries: the computational-basis
\* measurement, twice the X-basis measurement, four times a noisy tilted
\* measurement.  No two of the three commute.
SinglePovm(t) ==
    CASE t % 3 = 0 -> << FromRows(<< <<1, 0>>, <<0, 0>> >>),
                         FromRows(<< <<0, 0>>, <<0, 1>> >>) >>
      [] t % 3 = 1 -> << FromRows(<< <<1, 1>>, <<1, 1>> >>),
                         FromRows(<< <<1, -1>>, <<-1, 1>> >>) >>
      [] OTHER     -> << FromRows(<< <<3, 1>>, <<1, 1>> >>),
                         FromRows(<< <<1, -1>>, <<-1, 3>> >>) >>

\* A POVM on k qubits: the product of the single-qubit POVMs t, t + 1, ...,
\* its 2^k effects in the order of their outcome labels (local qubit 0 is the
\* most significant bit).
RECURSIVE ProductPovm(_, _)
ProductPovm(k, t) ==
    IF k = 1 THEN SinglePovm(t)
    ELSE LET first == SinglePovm(t)
             rest  == ProductPovm(k - 1, t + 1)
             r     == Pow2(k - 1)
         IN  [o \in 1..Pow2(k) |->
                 Kron(first[((o - 1) \div r) + 1], 2, rest[((o - 1) % r) + 1], r)]

\* The sequences of positive block lengths that sum to n.
RECURSIVE Compositions(_)
Compositions(n) ==
    IF n = 0 THEN { <<>> }
    ELSE UNION { { <<k>> \o c : c \in Compositions(n - k) } : k \in 1..n }

\* The orderings of the global positions 0..n-1.
Orderings(n) ==
    { f \in [1..n -> 0..(n - 1)] : \A a, b \in 1..n : a # b => f[a] # f[b] }

RECURSIVE SumSeq(_, _)
SumSeq(seq, upto) == IF upto = 0 THEN 0 ELSE seq[upto] + SumSeq(seq, upto - 1)

\* An ordering cut into consecutive blocks of the given lengths.
CutIntoBlocks(ordering, lengths) ==
    [b \in 1..Len(lengths) |->
        SubSeq(ordering, SumSeq(lengths, b - 1) + 1, SumSeq(lengths, b))]

\* Every qubit_indices_lists that partitions 0..n-1: subsystems in any order,
\* each index list in any order.
IndexListsOf(n) ==
    { CutIntoBlocks(f, c) : f \in Orderings(n), c \in Compositions(n) }

\* The reorderings of m subsystems: the permutations of 1..m.
SubsystemOrders(m) ==
    { f \in [1..m -> 1..m] : \A a, b \in 1..m : a # b => f[a] # f[b] }

\* Python's "<" on sort keys.  A key is a sequence: a string of binary digits
\* is the sequence of its digits, a number k is the one-element sequence <<k>>;
\* the order is the lexicographic one.
KeyLess(a, b) ==
    \/ \E p \in 1..Len(a) :
          /\ p <= Len(b) /\ a[p] < b[p]
          /\ \A q \in 1..(p - 1) : a[q] = b[q]
    \/ /\ Len(a) < Len(b)
       /\ \A q \in 1..Len(a) : a[q] = b[q]

\* The number as a sort key.
NumKey(k) == <<k>>

\* sorted(items, key=..., reverse=...) with keys[p] the key of items[p]:
\* stable, also with reverse=True.
Sorted(items, keys, reverse) ==
    LET m == Len(items)
        Before(p, q) ==
            \/ IF reverse THEN KeyLess(keys[q], keys[p]) ELSE KeyLess(keys[p], keys[q])
            \/ /\ ~KeyLess(keys[p], keys[q]) /\ ~KeyLess(keys[q], keys[p])
               /\ p < q
        Rank(p) == Cardinality({ q \in 1..m : Before(q, p) })
    IN  [r \in 1..m |-> items[CHOOSE p \in 1..m : Rank(p) = r - 1]]

\* sort_things(stuff_to_sort, according_to_what):
\* [x for _, x in sorted(zip(X, Y), key=lambda pair: pair[0])]; zip stops at
\* the shorter list.
sort_things(stuff_to_sort, according_to_what) ==
    LET m == IF Len(stuff_to_sort) < Len(according_to_what)
             THEN Len(stuff_to_sort) ELSE Len(according_to_what)
    IN  Sorted(SubSeq(stuff_to_sort, 1, m), SubSeq(according_to_what, 1, m), FALSE)

\* sort_bitstring(string, new_order)
sort_bitstring(string, new_order) ==
    sort_things(string, [p \in 1..Len(new_order) |-> NumKey(new_order[p])])

\* reorder_classical_register(new_order)
reorder_classical_register(new_order) ==
    LET n == Len(new_order)
    IN  [j \in 1..Pow2(n) |-> sort_bitstring(Bin(j - 1, n), new_order)]

\* join_povms, line 261
QubitsNum(qubit_indices_lists) ==
    SumSeq([b \in 1..Len(qubit_indices_lists) |-> Len(qubit_indices_lists[b])],
           Len(qubit_indices_lists))

\* join_povms, line 270: np.kron(Mi, np.eye(2 ** (qubits_num - len(indices_now))))
ExtendPovm(povm_now, indices_now, qubits_num) ==
    LET k == Len(indices_now)
    IN  [o \in 1..Len(povm_now) |->
            Kron(povm_now[o], Pow2(k), Eye(Pow2(qubits_num - k)), Pow2(qubits_num - k))]

\* join_povms, lines 276-281: the swap loop, from the last local index j
\* down to 0 (j is the 0-based index of the source).
RECURSIVE SwapLoop(_, _, _, _)
SwapLoop(swapped_povm, indices_now, j, qubits_num) ==
    IF j < 0 THEN swapped_povm
    ELSE LET index_qubit_now == indices_now[j + 1]
             next == IF index_qubit_now # j
                     THEN [o \in 1..Len(swapped_povm) |->
                             permute_matrix(swapped_povm[o], qubits_num,
                                            <<j + 1, index_qubit_now + 1>>)]
                     ELSE swapped_povm
         IN  SwapLoop(next, indices_now, j - 1, qubits_num)

\* join_povms, lines 266-283: one pass of the loop over the subsystems.
SwappedPovm(povm_now, indices_now, qubits_num) ==
    SwapLoop(ExtendPovm(povm_now, indices_now, qubits_num),
             indices_now, Len(indices_now) - 1, qubits_num)

\* gtc_matrix_product_counting_function: arguments[0] @ arguments[1] @ ...
RECURSIVE MatrixProductUpTo(_, _, _)
MatrixProductUpTo(arguments, upto, D) ==
    IF upto = 1 THEN arguments[1]
    ELSE MatMul(MatrixProductUpTo(arguments, upto - 1, D), arguments[upto], D)

\* The number of tuples of the operand lists s+1 .. Len.
RECURSIVE TuplesAfter(_, _)
TuplesAfter(operand_lists, s) ==
    IF s >= Len(operand_lists) THEN 1
    ELSE Len(operand_lists[s + 1]) * TuplesAfter(operand_lists, s + 1)

\* GeneralTensorCalculator.calculate_tensor_to_increasing_list with the
\* matrix product as the combination rule: one product per tuple of
\* operands, the tuples enumerated with the last list's index varying
\* fastest.
calculate_tensor_to_increasing_list(operand_lists, D) ==
    [idx \in 1..TuplesAfter(operand_lists, 0) |->
        MatrixProductUpTo(
            [s \in 1..Len(operand_lists) |->
                operand_lists[s][(((idx - 1) \div TuplesAfter(operand_lists, s))
                                    % Len(operand_lists[s])) + 1]],
            Len(operand_lists), D)]

\* join_povms, lines 291-293
RECURSIVE IndicesOrder(_, _)
IndicesOrder(qubit_indices_lists, upto) ==
    IF upto = 0 THEN <<>>
    ELSE IndicesOrder(qubit_indices_lists, upto - 1) \o qubit_indices_lists[upto]

\* join_povms, lines 287-298: compose the placed POVMs and sort the result.
ComposeAndSort(swapped_povms, qubit_indices_lists) ==
    LET qubits_num == QubitsNum(qubit_indices_lists)
        povm == calculate_tensor_to_increasing_list(swapped_povms, Pow2(qubits_num))
        indices_order == IndicesOrder(qubit_indices_lists, Len(qubit_indices_lists))
        new_classical_register == reorder_classical_register(indices_order)
    IN  sort_things(povm, new_classical_register)

\* join_povms(povms, qubit_indices_lists) as one function.
join_povms(povms, qubit_indices_lists) ==
    ComposeAndSort(
        [i \in 1..Len(qubit_indices_lists) |->
            SwappedPovm(povms[i], qubit_indices_lists[i], QubitsNum(qubit_indices_lists))],
        qubit_indices_lists)

\* The arguments of a call: an index partition, a POVM of the right size for
\* each subsystem, and a reordering of the subsystems for a second call.
InitJoin ==
    /\ \E n \in 1..MaxJoinQubits :
       \E lists \in IndexListsOf(n) :
       \E choice \in [1..Len(lists) -> 0..(NumPovmChoices - 1)],
          perm \in SubsystemOrders(Len(lists)) :
          jn = [pc |-> "place",
                povms |-> [b \in 1..Len(lists) |-> ProductPovm(Len(lists[b]), choice[b])],
                qubit_indices_lists |-> lists,
                perm |-> perm,
                i |-> 0,
                swapped_povms |-> <<>>]
    /\ est = Idle /\ sw = Idle /\ pr = Idle

\* One pass of the loop over the subsystems, lines 265-283.
JoinPlace ==
    /\ jn.pc = "place"
    /\ jn.i < Len(jn.qubit_indices_lists)
    /\ jn' = [jn EXCEPT
                !.i = jn.i + 1,
                !.swapped_povms =
                    Append(jn.swapped_povms,
                           SwappedPovm(jn.povms[jn.i + 1],
                                       jn.qubit_indices_lists[jn.i + 1],
                                       QubitsNum(jn.qubit_indices_lists)))]
    /\ UNCHANGED <<est, sw, pr>>

\* Lines 287-298, after the loop: compose, sort and return.
JoinCompose ==
    /\ jn.pc = "place"
    /\ jn.i = Len(jn.qubit_indices_lists)
    /\ jn' = [pc |-> "returned",
              povms |-> jn.povms,
              qubit_indices_lists |-> jn.qubit_indices_lists,
              perm |-> jn.perm,
              sorted_povm |-> ComposeAndSort(jn.swapped_povms, jn.qubit_indices_lists)]
    /\ UNCHANGED <<est, sw, pr>>

\* A second call, with both argument lists reordered by perm.
JoinReordered ==
    /\ jn.pc = "returned"
    /\ jn' = [pc |-> "compared",
              povms |-> jn.povms,
              qubit_indices_lists |-> jn.qubit_indices_lists,
              perm |-> jn.perm,
              sorted_povm |-> jn.sorted_povm,
              reordered_povm |->
                  join_povms([b \in 1..Len(jn.povms) |-> jn.povms[jn.perm[b]]],
                             [b \in 1..Len(jn.povms) |->
                                 jn.qubit_indices_lists[jn.perm[b]]])]
    /\ UNCHANGED <<est, sw, pr>>

NextJoin == JoinPlace \/ JoinCompose \/ JoinReordered

SpecJoin == InitJoin /\ [][NextJoin]_vars

(***************************************************************************)
(*                       Claims about join_povms                           *)
(***************************************************************************)

\* The bits of the n-bit label of x at the global positions `indices`, read
\* as a number (the first index is the most significant bit).
BitsAt(x, n, indices) ==
    IntOf([t \in 1..Len(indices) |-> Bin(x, n)[indices[t] + 1]])

RECURSIVE EntryProduct(_, _, _, _, _, _)
EntryProduct(povms, lists, n, j, xy, upto) ==
    IF upto = 0 THEN 1
    ELSE povms[upto][BitsAt(j, n, lists[upto]) + 1]
              [BitsAt(xy[1], n, lists[upto])][BitsAt(xy[2], n, lists[upto])]
         * EntryProduct(povms, lists, n, j, xy, upto - 1)

\* The effect the joint measurement has for outcome j: every subsystem's
\* effect selected by the bits of j at the subsystem's global positions,
\* acting on those positions (local qubit t on global position indices[t]).
JointEffect(povms, lists, n, j) ==
    [x \in Ix(Pow2(n)) |-> [y \in Ix(Pow2(n)) |->
        EntryProduct(povms, lists, n, j, <<x, y>>, Len(lists))]]

JoinReturned == jn.pc \in {"returned", "compared"}

\* C2 (as stated): for index lists that partition 0..n-1 (single- or
\* multi-qubit subsystems, each list in any order, subsystems in any order)
\* join_povms returns 2^n effects of dimension 2^n, and the effect at output
\* index j is the product of the subsystems' effects selected by the bits of
\* j, each acting on its assigned global positions.
C2_JoinIsTheJointMeasurement ==
    JoinReturned =>
        LET n == QubitsNum(jn.qubit_indices_lists)
        IN  /\ Len(jn.sorted_povm) = Pow2(n)
            /\ \A j \in Ix(Pow2(n)) :
                  jn.sorted_povm[j + 1] = JointEffect(jn.povms, jn.qubit_indices_lists, n, j)

\* C3 (as stated): reordering the POVMs and their index lists together does
\* not change the list join_povms returns.
C3_JoinIsOrderInvariant ==
    jn.pc = "compared" => jn.reordered_povm = jn.sorted_povm

\* The effect M of a subsystem placed on n qubits: local qubit t acts on
\* global position indices[t], every other position carries the identity.
PlacedEffect(M, indices, n) ==
    LET others == { p \in 0..(n - 1) : \A t \in 1..Len(indices) : indices[t] # p }
    IN  [x \in Ix(Pow2(n)) |-> [y \in Ix(Pow2(n)) |->
            IF \A p \in others : BitOf(x, n, p) = BitOf(y, n, p)
            THEN M[BitsAt(x, n, indices)][BitsAt(y, n, indices)]
            ELSE 0]]

\* C12 (as stated): for every subsystem whose index list names distinct
\* global positions in 0..n-1, in any order, after the swap loop the tensor
\* factor that started at leading position j sits at global position
\* indices[j] for every j, and every other position carries the identity.
C12_SwapLoopPlacesEveryFactor ==
    jn.pc = "place" =>
        \A b \in 1..jn.i :
            \A o \in 1..Len(jn.povms[b]) :
                jn.swapped_povms[b][o] =
                    PlacedEffect(jn.povms[b][o], jn.qubit_indices_lists[b],
                                 QubitsNum(jn.qubit_indices_lists))

(***************************************************************************)
(*                 PART 4.  find_closest_prob_vector                       *)
(***************************************************************************)

\* Bound of the model: the longest vector projected.
MaxLen == 3

\* Bound of the model: input entries are multiples of 1/Resolution.
Resolution == 5

\* Bound of the model: input entries range from -MaxDeficit/Resolution to
\* 1 + MaxDeficit/Resolution.
MaxDeficit == 3

\* 1/Resolution in the model's unit, and 1.0 in the model's unit.  Every sum of
\* input entries is a multiple of Grain, and Grain is a multiple of every
\* i + 1 <= MaxLen, so each a / (i + 1) of the algorithm is an integer.
Grain == Fact(MaxLen)
One == Resolution * Grain

\* The vectors of length d with entries k * Grain, k in lo..hi, that sum to 1.
VectorsSummingToOne(d, lo, hi) ==
    { [p \in 1..d |-> v[p] * Grain] :
        v \in { w \in [1..d -> lo..hi] : SumSeq(w, d) = Resolution } }

\* The inputs: real vectors that sum to 1, entries negative or above 1 allowed.
QuasiprobabilityVectors ==
    UNION { VectorsSummingToOne(d, -MaxDeficit, Resolution + MaxDeficit) : d \in 1..MaxLen }

\* Lines 317-320: pair every entry with its index (0-based) and sort the
\* pairs by value, descending; sorted() is stable also with reverse=True.
SortedPairs(p000) ==
    LET p1 == [p \in 1..Len(p000) |-> <<p - 1, p000[p]>>]
    IN  Sorted(p1, [p \in 1..Len(p1) |-> NumKey(p1[p][2])], TRUE)

\* A variant of the test that forgets to divide the accumulator.
ShouldFold_NoDivision(mu_i, a, i) == mu_i + a < 0

\* Line 332: "if mu_i + a / (i + 1) < 0" (the division is exact here).
ShouldFold(mu_i, a, i) == mu_i + a \div (i + 1) < 0

\* A variant of the update that stops one entry short: range(i).
Distribute_OffByOne(p1_sorted, a, i) ==
    [p \in 1..Len(p1_sorted) |->
        IF p - 1 < i THEN <<p1_sorted[p][1], p1_sorted[p][2] + a \div (i + 1)>>
        ELSE p1_sorted[p]]

\* Lines 341-342: "for j in range(i + 1): p1_sorted[j][1] += a / (i + 1)".
Distribute(p1_sorted, a, i) ==
    [p \in 1..Len(p1_sorted) |->
        IF p - 1 < i + 1 THEN <<p1_sorted[p][1], p1_sorted[p][2] + a \div (i + 1)>>
        ELSE p1_sorted[p]]

\* A variant that returns the entries in sorted order.
RestoreOrder_Forgotten(p1_sorted) ==
    [p \in 1..Len(p1_sorted) |-> p1_sorted[p][2]]

\* Lines 347-350: sort the pairs by index and drop the indices.
RestoreOrder(p1_sorted) ==
    LET ordered_p == Sorted(p1_sorted,
                            [p \in 1..Len(p1_sorted) |-> NumKey(p1_sorted[p][1])],
                            FALSE)
    IN  [p \in 1..Len(p1_sorted) |-> ordered_p[p][2]]

InitProj ==
    /\ \E q \in QuasiprobabilityVectors :
          pr = [pc |-> "call", quasiprobability_vector |-> q, original |-> q, round |-> 1]
    /\ est = Idle /\ jn = Idle /\ sw = Idle

\* Lines 303-323: up to the loop.
ProjSort ==
    /\ pr.pc = "call"
    /\ pr' = [pc |-> "scan",
              quasiprobability_vector |-> pr.quasiprobability_vector,
              original |-> pr.original,
              round |-> pr.round,
              p1_sorted |-> SortedPairs(pr.quasiprobability_vector),
              a |-> 0,
              i |-> Len(pr.quasiprobability_vector) - 1]
    /\ UNCHANGED <<est, jn, sw>>

\* Lines 326-337: a pass of the loop that takes the "if" branch.
ProjFold ==
    /\ pr.pc = "scan"
    /\ pr.i >= 0
    /\ ShouldFold(pr.p1_sorted[pr.i + 1][2], pr.a, pr.i)
    /\ pr' = [pr EXCEPT !.a = pr.a + pr.p1_sorted[pr.i + 1][2],
                        !.p1_sorted[pr.i + 1] = <<pr.p1_sorted[pr.i + 1][1], 0>>,
                        !.i = pr.i - 1]
    /\ UNCHANGED <<est, jn, sw>>

\* Lines 339-352: the pass that takes the "else" branch and breaks, or the
\* loop running out; then the order is restored and the vector returned.
ProjFinish ==
    /\ pr.pc = "scan"
    /\ pr.i >= 0 => ~ShouldFold(pr.p1_sorted[pr.i + 1][2], pr.a, pr.i)
    /\ pr' = [pc |-> "done",
              quasiprobability_vector |-> pr.quasiprobability_vector,
              original |-> pr.original,
              round |-> pr.round,
              p_good_format |->
                  RestoreOrder(IF pr.i >= 0
                               THEN Distribute(pr.p1_sorted, pr.a, pr.i)
                               ELSE pr.p1_sorted)]
    /\ UNCHANGED <<est, jn, sw>>

\* The caller projects the returned vector once more.
ProjAgain ==
    /\ pr.pc = "done"
    /\ pr.round = 1
    /\ pr' = [pc |-> "call", quasiprobability_vector |-> pr.p_good_format,
              original |-> pr.original, round |-> 2]
    /\ UNCHANGED <<est, jn, sw>>

NextProj == ProjSort \/ ProjFold \/ ProjFinish \/ ProjAgain

SpecProj == InitProj /\ [][NextProj]_vars

(***************************************************************************)
(*                Claims about find_closest_prob_vector                    *)
(***************************************************************************)

IsProbabilityVector(v) ==
    /\ \A p \in 1..Len(v) : v[p] >= 0
    /\ SumSeq(v, Len(v)) = One

\* C5: for every real input that sums to 1 the returned vector has the
\* length of the input, every entry >= 0 and the entries sum to 1; for
\* [0.6, 0.6, -0.2] it is [0.5, 0.5, 0.0].
C5_ReturnsProbabilityVector ==
    pr.pc = "done" =>
        LET q == pr.quasiprobability_vector
            r == pr.p_good_format
        IN  /\ Len(r) = Len(q)
            /\ IsProbabilityVector(r)
            /\ (/\ Len(q) = 3
                /\ 5 * q[1] = 3 * One /\ 5 * q[2] = 3 * One /\ 5 * q[3] = -One)
                 => (2 * r[1] = One /\ 2 * r[2] = One /\ r[3] = 0)

\* The input [0.6, 0.6, -0.2] has been projected to [0.5, 0.5, 0.0].
C5_Witness ==
    /\ pr.pc = "done" /\ pr.round = 1
    /\ pr.quasiprobability_vector = <<3 * Grain, 3 * Grain, -Grain>>
    /\ 5 * Grain = One
    /\ pr.p_good_format = <<One \div 2, One \div 2, 0>>
    /\ 2 * (One \div 2) = One

RECURSIVE SquaredDistanceUpTo(_, _, _)
SquaredDistanceUpTo(u, v, upto) ==
    IF upto = 0 THEN 0
    ELSE (u[upto] - v[upto]) * (u[upto] - v[upto]) + SquaredDistanceUpTo(u, v, upto - 1)

SquaredDistance(u, v) == SquaredDistanceUpTo(u, v, Len(u))

\* The probability vectors v is compared with: those with entries on the
\* grid of multiples of 1/Resolution, and those obtained from v by moving the
\* smallest representable amount from one entry to another (a convex function
\* has no local minimum on the simplex besides its global one).
ProbabilityVectorsNear(v) ==
    VectorsSummingToOne(Len(v), 0, Resolution)
    \cup { [v EXCEPT ![a] = v[a] - 1, ![b] = v[b] + 1] :
             <<a, b>> \in { ab \in (1..Len(v)) \X (1..Len(v)) :
                               ab[1] # ab[2] /\ v[ab[1]] >= 1 } }

\* C6: the returned vector is the Euclidean projection of the input onto the
\* probability simplex: it is a probability vector, and no probability
\* vector of the same length has a smaller sum of squared differences to
\* the input.
C6_ReturnsClosestProbabilityVector ==
    pr.pc = "done" =>
        LET q == pr.quasiprobability_vector
            r == pr.p_good_format
        IN  /\ IsProbabilityVector(r)
            /\ \A c \in ProbabilityVectorsNear(r) :
                  SquaredDistance(r, q) <= SquaredDistance(c, q)

\* A projection that cut a negative entry to zero and lowered a positive one
\* to a value off the input grid, as [1.2, 0.4, -0.6] to [0.9, 0.1, 0.0].
C6_Witness ==
    /\ pr.pc = "done" /\ pr.round = 1
    /\ Len(pr.quasiprobability_vector) = 3
    /\ \E p \in 1..3 : pr.quasiprobability_vector[p] < 0 /\ pr.p_good_format[p] = 0
    /\ \E p \in 1..3 : /\ pr.p_good_format[p] > 0
                       /\ pr.p_good_format[p] < pr.quasiprobability_vector[p]
                       /\ pr.p_good_format[p] % Grain # 0

\* C7: an input whose entries are all >= 0 and sum to 1 is returned
\* unchanged, entry by entry and in the original index order; so the second
\* projection returns what the first returned.
C7_IdentityOnProbabilityVectors ==
    pr.pc = "done" =>
        /\ IsProbabilityVector(pr.quasiprobability_vector)
              => pr.p_good_format = pr.quasiprobability_vector
        /\ pr.round = 2 => pr.p_good_format = pr.quasiprobability_vector

\* A probability vector that is not in descending order came back unchanged,
\* and so did the projection of a vector with a negative entry.
C7_Witness ==
    /\ pr.pc = "done"
    /\ pr.p_good_format = pr.quasiprobability_vector
    /\ \/ /\ pr.round = 1
          /\ Len(pr.quasiprobability_vector) = 3
          /\ pr.quasiprobability_vector[1] < pr.quasiprobability_vector[2]
          /\ pr.quasiprobability_vector[3] > pr.quasiprobability_vector[2]
       \/ /\ pr.round = 2
          /\ pr.quasiprobability_vector # pr.original

(***************************************************************************)
(*          PART 5.  The R-operator, with the matrices themselves          *)
(*                                                                         *)
(* Numbers are exact rationals <<n, d>> in lowest terms with d > 0.  A      *)
(* division by zero gives, as in numpy, no exception but a value that is   *)
(* not a finite number; it is written <<0, 0>> and every operation on it   *)
(* gives it back.                                                          *)
(***************************************************************************)

\* Bound of the model: the longest list of probe states.
MaxProbeStates == 3

\* Bound of the model: the entries of a frequencies row are multiples of
\* 1/FrequencyResolution.
FrequencyResolution == 2

RECURSIVE Gcd(_, _)
Gcd(a, b) == IF b = 0 THEN a ELSE Gcd(b, a % b)

NaN == <<0, 0>>

\* The rational n/d in lowest terms.
Rat(n, d) ==
    IF d = 0 THEN NaN
    ELSE LET g == Gcd(Abs(n), Abs(d))
             sgn == IF d < 0 THEN -1 ELSE 1
         IN  <<(sgn * n) \div g, (sgn * d) \div g>>

RZero == <<0, 1>>

IsFinite(q) == q[2] # 0

RAdd(a, b) == Rat(a[1] * b[2] + b[1] * a[2], a[2] * b[2])
RSub(a, b) == Rat(a[1] * b[2] - b[1] * a[2], a[2] * b[2])
RMul(a, b) == Rat(a[1] * b[1], a[2] * b[2])
RDiv(a, b) == Rat(a[1] * b[2], a[2] * b[1])

\* np.zeros((d, d))
QZeros(d) == [x \in Ix(d) |-> [y \in Ix(d) |-> RZero]]

\* np.identity(d) and np.eye(d) with rational entries.
QEye(d) == [x \in Ix(d) |-> [y \in Ix(d) |-> IF x = y THEN <<1, 1>> ELSE RZero]]

QAdd(A, B, d) == [x \in Ix(d) |-> [y \in Ix(d) |-> RAdd(A[x][y], B[x][y])]]

QScale(q, A, d) == [x \in Ix(d) |-> [y \in Ix(d) |-> RMul(q, A[x][y])]]

RECURSIVE QDotFrom(_, _, _, _, _)
QDotFrom(A, B, x, y, k) ==
    IF k < 0 THEN RZero
    ELSE RAdd(RMul(A[x][k], B[k][y]), QDotFrom(A, B, x, y, k - 1))

\* A @ B
QMatMul(A, B, d) == [x \in Ix(d) |-> [y \in Ix(d) |-> QDotFrom(A, B, x, y, d - 1)]]

RECURSIVE QTraceFrom(_, _)
QTraceFrom(A, k) == IF k < 0 THEN RZero ELSE RAdd(A[k][k], QTraceFrom(A, k - 1))

\* np.trace(A)
QTrace(A, d) == QTraceFrom(A, d - 1)

\* A rational matrix from rows of <<numerator, denominator>> pairs.
QFromRows(rows) ==
    [x \in Ix(Len(rows)) |-> [y \in Ix(Len(rows)) |->
        Rat(rows[x + 1][y + 1][1], rows[x + 1][y + 1][2])]]

\* Single-qubit probe states, get_density_matrix(ket) of the kets |0>, |1>,
\* |+>, |->.
ProbeState(t) ==
    CASE t % 4 = 0 -> QFromRows(<< << <<1, 1>>, <<0, 1>> >>, << <<0, 1>>, <<0, 1>> >> >>)
      [] t % 4 = 1 -> QFromRows(<< << <<0, 1>>, <<0, 1>> >>, << <<0, 1>>, <<1, 1>> >> >>)
      [] t % 4 = 2 -> QFromRows(<< << <<1, 2>>, <<1, 2>> >>, << <<1, 2>>, <<1, 2>> >> >>)
      [] OTHER     -> QFromRows(<< << <<1, 2>>, <<-1, 2>> >>, << <<-1, 2>>, <<1, 2>> >> >>)

\* The first k of them.
ProbeStates(k) == [s \in 1..k |-> ProbeState(s - 1)]

\* Effects the R-operator is computed for: the uniform effect, projectors
\* on |0>, |1>, |+>, |->, the zero effect and a noisy diagonal effect.
Effects ==
    { QScale(<<1, 2>>, QEye(2), 2), ProbeState(0), ProbeState(1), ProbeState(2),
      ProbeState(3), QZeros(2),
      QFromRows(<< << <<9, 10>>, <<0, 1>> >>, << <<0, 1>>, <<1, 5>> >> >>) }

\* The rows of a frequencies array with two outcomes: the frequencies of one
\* probe state, summing to 1, and the row of a probe state without counts.
FrequencyRows ==
    { << Rat(a, FrequencyResolution), Rat(FrequencyResolution - a, FrequencyResolution) >> :
        a \in 0..FrequencyResolution }
    \cup { << RZero, RZero >> }

\* Line 191: np.trace(m_m @ probe_states[probe_state_index])
ExpectationValue(m_m, probe_state, d) == QTrace(QMatMul(m_m, probe_state, d), d)

\* A variant of the test that never skips a term.
ExpectationIsZero_Never(expectation_value_on_probe_state) == FALSE

\* Line 193: "if expectation_value_on_probe_state == 0j"
ExpectationIsZero(expectation_value_on_probe_state) ==
    expectation_value_on_probe_state = RZero

\* Lines 196-197: x = frequencies_array[s, j] / expectation; m_r += x * state
\* (probe_state_index and index_of_povm_effect are 0-based).
WithTerm(m_r, m_m, index_of_povm_effect, frequencies_array, probe_states, probe_state_index, d) ==
    LET state == probe_states[probe_state_index + 1]
        x == RDiv(frequencies_array[probe_state_index + 1][index_of_povm_effect + 1],
                  ExpectationValue(m_m, state, d))
    IN  QAdd(m_r, QScale(x, state, d), d)

\* Lines 190-197: the loop over the rows of frequencies_array.
RECURSIVE ROperatorFrom(_, _, _, _, _, _, _)
ROperatorFrom(m_r, m_m, index_of_povm_effect, frequencies_array, probe_states, probe_state_index, d) ==
    IF probe_state_index >= Len(frequencies_array) THEN m_r
    ELSE ROperatorFrom(
            IF ExpectationIsZero(
                   ExpectationValue(m_m, probe_states[probe_state_index + 1], d))
            THEN m_r
            ELSE WithTerm(m_r, m_m, index_of_povm_effect, frequencies_array,
                          probe_states, probe_state_index, d),
            m_m, index_of_povm_effect, frequencies_array, probe_states,
            probe_state_index + 1, d)

\* __get_r_operator(m_m, index_of_povm_effect, frequencies_array, probe_states).
\* Lines 199-200 replace a matrix of norm 0 by the zero matrix: no change.
get_r_operator(m_m, index_of_povm_effect, frequencies_array, probe_states) ==
    LET d == Cardinality(DOMAIN probe_states[1])
    IN  ROperatorFrom(QZeros(d), m_m, index_of_povm_effect, frequencies_array,
                      probe_states, 0, d)

\* The arguments of a call: an effect, an outcome index, k probe states and
\* a frequencies array with one row per probe state.
InitR ==
    /\ \E m_m \in Effects, j \in 0..1, k \in 1..MaxProbeStates :
       \E f \in [1..k -> FrequencyRows] :
          est = [pc |-> "r_loop",
                 m_m |-> m_m,
                 index_of_povm_effect |-> j,
                 frequencies_array |-> f,
                 probe_states |-> ProbeStates(k),
                 probe_state_index |-> 0,
                 m_r |-> QZeros(2)]
    /\ jn = Idle /\ sw = Idle /\ pr = Idle

\* A pass of the loop that takes "continue" (lines 191-194).
RSkip ==
    /\ est.pc = "r_loop"
    /\ est.probe_state_index < Len(est.frequencies_array)
    /\ ExpectationIsZero(
          ExpectationValue(est.m_m, est.probe_states[est.probe_state_index + 1], 2))
    /\ est' = [est EXCEPT !.probe_state_index = est.probe_state_index + 1]
    /\ UNCHANGED <<jn, sw, pr>>

\* A pass of the loop that adds a term (lines 191-197).
RTerm ==
    /\ est.pc = "r_loop"
    /\ est.probe_state_index < Len(est.frequencies_array)
    /\ ~ExpectationIsZero(
          ExpectationValue(est.m_m, est.probe_states[est.probe_state_index + 1], 2))
    /\ est' = [est EXCEPT
                 !.probe_state_index = est.probe_state_index + 1,
                 !.m_r = WithTerm(est.m_r, est.m_m, est.index_of_povm_effect,
                                  est.frequencies_array, est.probe_states,
                                  est.probe_state_index, 2)]
    /\ UNCHANGED <<jn, sw, pr>>

\* The loop is over: lines 199-202.
RReturn ==
    /\ est.pc = "r_loop"
    /\ est.probe_state_index >= Len(est.frequencies_array)
    /\ est' = [est EXCEPT !.pc = "r_done"]
    /\ UNCHANGED <<jn, sw, pr>>

NextR == RSkip \/ RTerm \/ RReturn

SpecR == InitR /\ [][NextR]_vars

(***************************************************************************)
(*                    Claims about the R-operator                          *)
(***************************************************************************)

\* The probe states (1-based) on which the effect has a non-zero expectation.
StatesWithExpectation(m_m, probe_states) ==
    { s \in 1..Len(probe_states) :
        QTrace(QMatMul(m_m, probe_states[s], 2), 2) # RZero }

\* Entry xy of the sum over the states s in S of f(s, j) * rho_s / Tr(M rho_s).
RECURSIVE SumOfTerms(_, _, _, _, _, _)
SumOfTerms(S, m_m, j, frequencies_array, probe_states, xy) ==
    IF S = {} THEN RZero
    ELSE LET s == CHOOSE t \in S : TRUE
         IN  RAdd(RDiv(RMul(frequencies_array[s][j + 1],
                            probe_states[s][xy[1]][xy[2]]),
                       QTrace(QMatMul(m_m, probe_states[s], 2), 2)),
                  SumOfTerms(S \ {s}, m_m, j, frequencies_array, probe_states, xy))

\* C15: the R-operator is the sum of f(s,j)/Tr(M_j rho_s) * rho_s over exactly
\* the probe states whose expectation value is non-zero; a probe state with
\* zero expectation contributes nothing and no entry is the result of a
\* division by zero; when every term is skipped the result is the zero matrix.
C15_ROperatorSkipsZeroExpectations ==
    est.pc = "r_done" =>
        LET S == StatesWithExpectation(est.m_m, est.probe_states)
        IN  /\ est.m_r = get_r_operator(est.m_m, est.index_of_povm_effect,
                                        est.frequencies_array, est.probe_states)
            /\ \A x \in Ix(2), y \in Ix(2) :
                  /\ IsFinite(est.m_r[x][y])
                  /\ est.m_r[x][y] =
                        SumOfTerms(S, est.m_m, est.index_of_povm_effect,
                                   est.frequencies_array, est.probe_states, <<x, y>>)
            /\ S = {} => est.m_r = QZeros(2)

\* The effect |0><0| on the probe states |0>, |1>, |+>: the term of |1> was
\* skipped, the other two were added.
C15_Witness ==
    /\ est.pc = "r_done"
    /\ est.m_m = ProbeState(0)
    /\ Len(est.probe_states) = 3
    /\ StatesWithExpectation(est.m_m, est.probe_states) = {1, 3}
    /\ est.index_of_povm_effect = 0
    /\ est.frequencies_array[1][1] # RZero
    /\ est.frequencies_array[3][1] # RZero
    /\ est.m_r[0][1] # RZero

(***************************************************************************)
(*      PART 6.  One pass of the MLE loop body, statement by statement     *)
(*                                                                         *)
(* Lines 149-154 on calibrations with the probe states |0> and |1>: every  *)
(* matrix of the recursion is then diagonal and every number rational.  A  *)
(* positive semidefinite matrix is held by its square, [squared |-> A] is  *)
(* sqrtm(A); this keeps sqrtm and the inverse exact.  The loop test, the   *)
(* checkpoint and the threshold (lines 143-147, 156-164) are those of      *)
(* PART 1; here the passes are followed up to MaxUpdates.                  *)
(***************************************************************************)

\* Bound of the model: the number of loop passes followed.
MaxUpdates == 3

\* sc.linalg.sqrtm(A)
sqrtm(A) == [squared |-> A]

\* Lines 219-220: the sum over j of r_matrices[j] @ povms[j] @ r_matrices[j].
RECURSIVE SecondPowerFrom(_, _, _, _)
SecondPowerFrom(r_matrices, povms, j, d) ==
    IF j = 0 THEN QZeros(d)
    ELSE QAdd(SecondPowerFrom(r_matrices, povms, j - 1, d),
              QMatMul(QMatMul(r_matrices[j], povms[j], d), r_matrices[j], d), d)

\* __get_lagrange_matrix(r_matrices, povms)
get_lagrange_matrix(r_matrices, povms) ==
    LET dimension == Cardinality(DOMAIN povms[1])
    IN  sqrtm(SecondPowerFrom(r_matrices, povms, Len(povms), dimension))

\* The determinant of a 2 x 2 matrix.
QDet(A) == RSub(RMul(A[0][0], A[1][1]), RMul(A[0][1], A[1][0]))

\* The inverse of a 2 x 2 matrix of non-zero determinant.
QInverse(A) ==
    LET det == QDet(A)
    IN  [x \in Ix(2) |-> [y \in Ix(2) |->
            IF x = y THEN RDiv(A[1 - x][1 - x], det)
            ELSE RDiv(RSub(RZero, A[x][y]), det)]]

\* np.linalg.inv(m): raises LinAlgError on a singular matrix; sqrtm(A) is
\* singular exactly when A is, and its inverse is sqrtm of the inverse of A.
np_linalg_inv(m) ==
    IF QDet(m.squared) = RZero
    THEN [raised |-> TRUE, value |-> m]
    ELSE [raised |-> FALSE, value |-> sqrtm(QInverse(m.squared))]

\* A variant of the try statement without its except clause.
TryInverse_NotCaught(inversion, d) == inversion

\* Lines 238-243: try: inv(...) except LinAlgError: np.eye(d).
TryInverse(inversion, d) ==
    IF inversion.raised
    THEN [raised |-> FALSE, value |-> sqrtm(QEye(d))]
    ELSE inversion

\* The square root of a rational that is a square.
RSqrt(q) ==
    << CHOOSE r \in 0..q[1] : r * r = q[1], CHOOSE r \in 0..q[2] : r * r = q[2] >>

\* S @ X @ S for S = sqrtm(K) with K diagonal: entry (x, y) is
\* sqrt(K[x][x]) * X[x][y] * sqrt(K[y][y]).
Sandwich(S, X, d) ==
    [x \in Ix(d) |-> [y \in Ix(d) |->
        IF X[x][y] = RZero THEN RZero
        ELSE IF x = y THEN RMul(X[x][y], S.squared[x][x])
        ELSE RMul(X[x][y], RSqrt(RMul(S.squared[x][x], S.squared[y][y])))]]

\* __calculate_symmetric_m(m_lagrange_matrix, m_r, m_m): the new effect, or
\* an exception that leaves the method.
calculate_symmetric_m(m_lagrange_matrix, m_r, m_m) ==
    LET d == Cardinality(DOMAIN m_m)
        m_inversed_lagrange_matrix == TryInverse(np_linalg_inv(m_lagrange_matrix), d)
    IN  IF m_inversed_lagrange_matrix.raised
        THEN [raised |-> TRUE, value |-> m_m]
        ELSE [raised |-> FALSE,
              value |-> Sandwich(m_inversed_lagrange_matrix.value,
                                 QMatMul(QMatMul(m_r, m_m, d), m_r, d), d)]

\* A variant that stores every new effect into the list povm at once.
PovmDuringUpdate_InPlace(povm, new_effects) ==
    [j \in 1..Len(povm) |-> IF j <= Len(new_effects) THEN new_effects[j] ELSE povm[j]]

\* Lines 153-154: the list comprehension builds a new list; the name povm
\* stays bound to the old one until the comprehension is complete.
PovmDuringUpdate(povm, new_effects) == povm

\* Lines 133-136: number_of_probe_states copies of np.identity(dimension) /
\* number_of_probe_states (the number is frequencies_array.shape[1]).
UniformPovm(number_of_probe_states, dimension) ==
    [j \in 1..number_of_probe_states |->
        QScale(Rat(1, number_of_probe_states), QEye(dimension), dimension)]

\* The calibrations followed: probe states |0> and |1>, one frequencies row
\* for each.
InitUpdate ==
    /\ \E f \in [1..2 -> FrequencyRows] :
          est = [pc |-> "r_matrices",
                 frequencies_array |-> f,
                 probe_states |-> ProbeStates(2),
                 i |-> 1,
                 povm |-> UniformPovm(Len(f[1]), 2),
                 start_povm |-> UniformPovm(Len(f[1]), 2),
                 r_matrices |-> <<>>,
                 lagrange_matrix |-> sqrtm(QZeros(2)),
                 new_povm |-> <<>>,
                 recovered |-> 0]
    /\ jn = Idle /\ sw = Idle /\ pr = Idle

\* Lines 149-151: one element of the list r_matrices.
ComputeROperator ==
    /\ est.pc = "r_matrices"
    /\ LET j == Len(est.r_matrices) IN
       est' = [est EXCEPT
                 !.r_matrices = Append(est.r_matrices,
                                       get_r_operator(est.povm[j + 1], j,
                                                      est.frequencies_array,
                                                      est.probe_states)),
                 !.pc = IF j + 1 = Len(est.povm) THEN "lagrange" ELSE "r_matrices"]
    /\ UNCHANGED <<jn, sw, pr>>

\* Line 152
ComputeLagrangeMatrix ==
    /\ est.pc = "lagrange"
    /\ est' = [est EXCEPT
                 !.lagrange_matrix = get_lagrange_matrix(est.r_matrices, est.povm),
                 !.pc = "symmetric_m"]
    /\ UNCHANGED <<jn, sw, pr>>

\* Lines 153-154: one element of the new list.
ComputeSymmetricM ==
    /\ est.pc = "symmetric_m"
    /\ LET j == Len(est.new_povm)
           m == calculate_symmetric_m(est.lagrange_matrix, est.r_matrices[j + 1],
                                      est.povm[j + 1])
       IN  IF m.raised
           THEN est' = [est EXCEPT !.pc = "fault"]
           ELSE est' = [est EXCEPT
                          !.new_povm = Append(est.new_povm, m.value),
                          !.povm = PovmDuringUpdate(est.povm,
                                                    Append(est.new_povm, m.value)),
                          !.pc = IF j + 1 = Len(est.povm) THEN "assign"
                                 ELSE "symmetric_m"]
    /\ UNCHANGED <<jn, sw, pr>>

\* Line 153: "povm = [...]", the end of the pass; then the next pass.
AssignPovm ==
    /\ est.pc = "assign"
    /\ est' = [est EXCEPT
                 !.povm = est.new_povm,
                 !.start_povm = est.new_povm,
                 !.r_matrices = <<>>,
                 !.new_povm = <<>>,
                 !.recovered = est.recovered
                     + (IF np_linalg_inv(est.lagrange_matrix).raised THEN 1 ELSE 0),
                 !.i = est.i + 1,
                 !.pc = IF est.i < MaxUpdates THEN "r_matrices" ELSE "stopped"]
    /\ UNCHANGED <<jn, sw, pr>>

NextUpdate ==
    ComputeROperator \/ ComputeLagrangeMatrix \/ ComputeSymmetricM \/ AssignPovm

SpecUpdate == InitUpdate /\ [][NextUpdate]_vars

(***************************************************************************)
(*                   Claims about the loop body                            *)
(***************************************************************************)

InPass == est.pc \in {"r_matrices", "lagrange", "symmetric_m", "assign"}

\* The R-operators of a whole POVM.
ROperatorsOf(povm, frequencies_array, probe_states) ==
    [j \in 1..Len(povm) |->
        get_r_operator(povm[j], j - 1, frequencies_array, probe_states)]

\* Effect j of the next POVM as a function of the POVM at the start of the
\* pass alone.
UpdatedEffect(povm, j, frequencies_array, probe_states) ==
    LET r_matrices == ROperatorsOf(povm, frequencies_array, probe_states)
    IN  calculate_symmetric_m(get_lagrange_matrix(r_matrices, povm),
                              r_matrices[j], povm[j]).value

\* C13: in every pass all R-operators are computed from the POVM as it stood
\* at the start of the pass, the Lagrange matrix only after all of them, and
\* every new effect from that same POVM, its R-operator and that one
\* Lagrange matrix; no effect is replaced before the pass is complete, so the
\* new POVM is a function of the old one alone.
C13_UpdateReadsStartOfIterationPovm ==
    InPass =>
        /\ est.povm = est.start_povm
        /\ \A j \in 1..Len(est.r_matrices) :
              est.r_matrices[j] =
                  get_r_operator(est.start_povm[j], j - 1, est.frequencies_array,
                                 est.probe_states)
        /\ est.pc \in {"symmetric_m", "assign"} =>
              /\ Len(est.r_matrices) = Len(est.start_povm)
              /\ est.lagrange_matrix =
                    get_lagrange_matrix(est.r_matrices, est.start_povm)
        /\ est.pc \in {"r_matrices", "lagrange"} => est.new_povm = <<>>
        /\ \A j \in 1..Len(est.new_povm) :
              est.new_povm[j] =
                  UpdatedEffect(est.start_povm, j, est.frequencies_array,
                                est.probe_states)

\* The second pass is complete: its new POVM differs from the one it started
\* with and is about to be assigned.
C13_Witness ==
    /\ est.pc = "assign" /\ est.i = 2
    /\ Len(est.new_povm) = Len(est.povm)
    /\ est.new_povm # est.start_povm
    /\ est.start_povm # UniformPovm(2, 2)

====
